---- MODULE Spec2Model ----
(***************************************************************************)
(* Aggregation of Plonk proofs: the native pre-pass AggregationCircuit::new *)
(* and the circuit pass aggregate / AggregationCircuit::synthesize of       *)
(* snark-verifier-sdk/src/halo2/aggregation.rs, the native loader of        *)
(* src/loader/native.rs, and the instructions of the two circuit backends   *)
(* (halo2_lib, halo2_wrong) of src/loader/halo2/shim.rs.                    *)
(*                                                                         *)
(* Curve points are elements of the additive group Z_P; a point's affine    *)
(* coordinates are base-field elements below 2^(LIMBS*BITS).  A value of a  *)
(* circuit witness that is not known is Unknown.                            *)
(***************************************************************************)
EXTENDS Integers, Sequences, FiniteSets, TLC

\* ------------------------------------------------------------------ bounds
\* Longest list of snarks handed to one aggregation.
MaxSnarks == 2
\* Most invocations of the region closure by the layouter's floor planner.
MaxPasses == 2
\* Order of the group the points live in.
P == 5
\* Limbs per base-field element, and bits per limb (crate::LIMBS, crate::BITS,
\* scaled so that a field element fits an integer of the checker).
LIMBS == 3
BITS == 2

\* Value::unknown()
Unknown == -1

\* ------------------------------------------------------------- arithmetic
RECURSIVE Pow2(_)
Pow2(n) == IF n = 0 THEN 1 ELSE 2 * Pow2(n - 1)

\* Affine coordinates of the point g of Z_P (base-field elements).
CoordX(g) == IF g = Unknown THEN Unknown ELSE (11 * g + 5) % Pow2(LIMBS * BITS)
CoordY(g) == IF g = Unknown THEN Unknown ELSE (7 * g * g + 9) % Pow2(LIMBS * BITS)

\* fe_to_limbs::<_, _, LIMBS, BITS>: LIMBS limbs of BITS bits, least significant first.
fe_to_limbs(fe) ==
    [j \in 1..LIMBS |->
        IF fe = Unknown THEN Unknown ELSE (fe \div Pow2(BITS * (j - 1))) % Pow2(BITS)]

RECURSIVE Concat(_)
Concat(ss) == IF ss = <<>> THEN <<>> ELSE Head(ss) \o Concat(Tail(ss))

\* --------------------------------------------------------------- the data
Accumulator(l, r) == [lhs |-> l, rhs |-> r]
UnknownAccumulator == Accumulator(Unknown, Unknown)

\* A Snark: its protocol (with the accumulators of earlier aggregations that it
\* carries as public inputs), its instance columns and its proof bytes.
Snark(id, prev, inst, bytes) ==
    [protocol |-> [id |-> id, prev |-> prev], instances |-> inst, proof |-> bytes]

SnarkSet ==
    { Snark(1, <<>>, << <<1>> >>, <<1, 2>>),
      Snark(2, <<>>, << <<1, 2>>, <<3>> >>, <<3, 4>>),
      Snark(3, << Accumulator(2, 2) >>, << <<4>>, <<>> >>, <<2, 3>>),
      Snark(4, <<>>, << <<2, 2>> >>, <<1, 2>>) }

SnarkLists == UNION { [1..n -> SnarkSet] : n \in 0..MaxSnarks }

\* SnarkWitness: a Snark whose instances and proof may be unknown.
SnarkWitnessOf(snark) ==
    [protocol |-> snark.protocol, known |-> TRUE,
     instances |-> snark.instances, proof |-> snark.proof]

\* SnarkWitness::without_witnesses: same protocol and shape, values unknown.
SnarkWithoutWitnesses(sw) ==
    [protocol |-> sw.protocol, known |-> FALSE,
     instances |-> [c \in DOMAIN sw.instances |->
                      [k \in DOMAIN sw.instances[c] |-> Unknown]],
     proof |-> <<>>]

\* Plonk::succinct_verify on a proof that was read: the accumulators the
\* protocol carries, then the pair the proof opens to.
SuccinctVerify(sw) ==
    IF sw.known
    THEN sw.protocol.prev \o << Accumulator(sw.proof[1] % P, sw.proof[2] % P) >>
    ELSE [k \in 1..(Len(sw.protocol.prev) + 1) |-> UnknownAccumulator]

\* ------------------------------------------------- the accumulation scheme
AllKnown(accs) == \A k \in DOMAIN accs : accs[k].lhs # Unknown /\ accs[k].rhs # Unknown

\* The folding challenge: the transcript absorbs the accumulators in order.
RECURSIVE Absorb(_, _)
Absorb(accs, st) ==
    IF accs = <<>> THEN st
    ELSE Absorb(Tail(accs), (3 * st + 2 * Head(accs).lhs + Head(accs).rhs + 1) % P)

Challenge(accs) == Absorb(accs, 1)

\* sum of r^(k-1) * accs[k], for a non-empty list.
RECURSIVE FoldWith(_, _)
FoldWith(accs, r) ==
    IF Len(accs) = 1 THEN Head(accs)
    ELSE LET rest == FoldWith(Tail(accs), r)
         IN  Accumulator((Head(accs).lhs + r * rest.lhs) % P,
                         (Head(accs).rhs + r * rest.rhs) % P)

\* The accumulation scheme on a non-empty list: one accumulator is returned
\* unchanged, several are combined with the powers of the challenge.
Accumulate(accs) ==
    IF Len(accs) = 1 THEN accs[1]
    ELSE IF AllKnown(accs) THEN FoldWith(accs, Challenge(accs))
    ELSE UnknownAccumulator

\* The accumulation proof written for a list of accumulators.
AsProofBytes(accs, seed) == IF Len(accs) > 1 THEN << seed >> ELSE <<>>

\* ------------------------------------------------------------------ state
VARIABLES
    snarks,              \* the Snarks handed to AggregationCircuit::new
    rng,                 \* the seed of the randomness source handed to new
    transcript_write,    \* the stream of the caller's PoseidonTranscript
    n_pc,                \* new: "run", "done" or "panicked" ("unused": never called)
    n_i,                 \* new: snarks verified so far
    n_accumulators,      \* new: the accumulators collected so far
    n_trace,             \* new: the verifier and accumulation calls made
    n_err,               \* new: the call whose Err was unwrapped
    circuit,             \* the AggregationCircuit built by new
    cfg_pc,              \* AggregationConfig::configure: "none", "configured", "panicked"
    params,              \* the AggregationConfigParams it is given
    meta,                \* the ConstraintSystem configure works on
    config,              \* the AggregationConfig it returns
    s_pc,                \* synthesize: "idle", "assign_region", "aggregate", "expose", ...
    first_pass,          \* synthesize: the closure's skip flag
    passes,              \* synthesize: invocations of the region closure so far
    lookup_loaded,       \* synthesize: the range chip's lookup table is loaded
    assigned_instances,  \* synthesize: the cells collected by the closure
    constraints,         \* synthesize: the constrain_instance calls made
    a_caller,            \* aggregate: "synthesize", or "direct" for another caller
    a_snarks,            \* aggregate: its argument snarks
    a_as_proof,          \* aggregate: its argument as_proof
    c_i,                 \* aggregate: snarks verified so far
    c_accumulators,      \* aggregate: the accumulators collected so far
    previous_instances,  \* aggregate: the assigned instances of the snarks
    c_trace,             \* aggregate: the verifier and accumulation calls made
    c_err,               \* aggregate: the call whose Err (or None) was unwrapped
    c_returned,          \* aggregate: it returned (previous_instances, accumulator)
    c_acc,               \* aggregate: the accumulator it returned
    l_pc,                \* native loader: "idle", "call" or "returned"
    l_args,              \* native loader: the annotation and operands the caller passed
    l_lhs,               \* native loader: the value lhs refers to
    l_rhs,               \* native loader: the value rhs refers to
    l_loader,            \* native loader: the loader, a unit struct
    l_result,            \* native loader: the Result returned
    h_pc,                \* circuit backend: "idle", "call", a step of the MSM, "returned"
    h_backend,           \* circuit backend: "halo2_lib" or "halo2_wrong" ("native": FieldOps)
    h_op,                \* circuit backend: the instruction called
    h_args,              \* circuit backend: its arguments
    h_ctx,               \* circuit backend: what was done on the Context, in order
    h_chip,              \* circuit backend: the ecc chip's auxiliary generator and table
    h_result             \* circuit backend: the Result returned

nativeVars == << snarks, rng, transcript_write, n_pc, n_i, n_accumulators, n_trace,
                 n_err, circuit >>
configVars == << cfg_pc, params, meta, config >>
synthVars == << s_pc, first_pass, passes, lookup_loaded, assigned_instances, constraints >>
aggVars == << a_caller, a_snarks, a_as_proof, c_i, c_accumulators, previous_instances, c_trace, c_err, c_returned, c_acc >>
loaderVars == << l_pc, l_args, l_lhs, l_rhs, l_loader, l_result >>
shimVars == << h_pc, h_backend, h_op, h_args, h_ctx, h_chip, h_result >>
vars == << nativeVars, configVars, synthVars, aggVars, loaderVars, shimVars >>

\* One call of the verifier or of the accumulation scheme: which scheme, which
\* call, the protocol it is made for (0: none) and the data it is given.
Event(of, op, id, data) == [of |-> of, op |-> op, id |-> id, data |-> data]

\* The calls one snark's closure makes before `failed` ("ok": none fails).
VerifierSteps(sw, failed) ==
    << Event("plonk", "new_stream", sw.protocol.id, << sw.proof >>),
       Event("plonk", "read_proof", sw.protocol.id, sw.instances) >>
    \o (IF failed = "read_proof" THEN <<>>
        ELSE << Event("plonk", "succinct_verify", sw.protocol.id, sw.instances) >>)

Outcomes == {"ok", "read_proof", "succinct_verify"}

\* Mutant: the Err is dropped and control goes on.
UnwrapIgnored(outcome, pc) == pc

\* Result::unwrap: where control is after the call that ended `outcome`.
Unwrap(outcome, pc) == IF outcome = "ok" THEN pc ELSE "panicked"

\* Mutant: a closure's accumulators are put in front of the earlier ones.
PrependAccumulators(list, accs) == accs \o list

\* flat_map(..).collect_vec(): each closure's accumulators, in closure order.
AppendAccumulators(list, accs) == list \o accs

NoCircuit ==
    [built |-> FALSE, svk |-> "none", snarks |-> <<>>, instances |-> <<>>,
     as_proof |-> [known |-> FALSE, bytes |-> <<>>]]

\* ------------------------------------------- AggregationCircuit::new
\* The closure of lines 199-209 for the next snark.
NewSnark ==
    /\ n_pc = "run"
    /\ n_i < Len(snarks)
    /\ LET sw == SnarkWitnessOf(snarks[n_i + 1]) IN
       \E outcome \in Outcomes :
          /\ n_trace' = n_trace \o VerifierSteps(sw, outcome)
          /\ IF outcome = "ok"
             THEN /\ n_accumulators' = AppendAccumulators(n_accumulators, SuccinctVerify(sw))
                  /\ n_i' = n_i + 1
                  /\ UNCHANGED << n_pc, n_err >>
             ELSE /\ n_pc' = Unwrap(outcome, n_pc)
                  /\ n_err' = outcome
                  /\ UNCHANGED << n_accumulators, n_i >>
    /\ UNCHANGED << snarks, rng, transcript_write, circuit >>
    /\ UNCHANGED << configVars, synthVars, aggVars, loaderVars, shimVars >>

\* KzgAs::create_proof: fails on an empty list, else the accumulator and the
\* bytes written to the transcript.
CreateProof(accs, seed) ==
    IF accs = <<>>
    THEN [ok |-> FALSE, accumulator |-> UnknownAccumulator, proof |-> <<>>]
    ELSE [ok |-> TRUE, accumulator |-> Accumulate(accs), proof |-> AsProofBytes(accs, seed)]

\* Mutant: the right-hand point is laid out before the left-hand one.
NewInstancesRhsFirst(acc) ==
    Concat(<< fe_to_limbs(CoordX(acc.rhs)), fe_to_limbs(CoordY(acc.rhs)),
              fe_to_limbs(CoordX(acc.lhs)), fe_to_limbs(CoordY(acc.lhs)) >>)

\* [lhs.x, lhs.y, rhs.x, rhs.y].map(fe_to_limbs).concat()
NewInstances(acc) ==
    Concat(<< fe_to_limbs(CoordX(acc.lhs)), fe_to_limbs(CoordY(acc.lhs)),
              fe_to_limbs(CoordX(acc.rhs)), fe_to_limbs(CoordY(acc.rhs)) >>)

\* Variant: the stream the caller left in the transcript is kept.
ClearKeepsStream(stream) == stream

\* transcript_write.clear() (line 213): the stream is emptied.
Clear(stream) == <<>>

\* Lines 212-234: clear the caller's transcript, run the accumulation scheme,
\* take the proof bytes, decompose the accumulator and build the circuit.
NewCreateProof ==
    /\ n_pc = "run"
    /\ n_i = Len(snarks)
    /\ n_trace' = Append(n_trace, Event("as", "create_proof", 0, <<>>))
    /\ transcript_write' = <<>>
    /\ LET res == CreateProof(n_accumulators, rng) IN
       IF res.ok
       THEN /\ circuit' = [built |-> TRUE, svk |-> "g",
                           snarks |-> [k \in DOMAIN snarks |-> SnarkWitnessOf(snarks[k])],
                           instances |-> NewInstances(res.accumulator),
                           as_proof |-> [known |-> TRUE,
                                        bytes |-> Clear(transcript_write) \o res.proof]]
            /\ n_pc' = "done"
            /\ UNCHANGED n_err
       ELSE /\ n_pc' = Unwrap("create_proof", n_pc)
            /\ n_err' = "create_proof"
            /\ UNCHANGED circuit
    /\ UNCHANGED << snarks, rng, n_i, n_accumulators >>
    /\ UNCHANGED << configVars, synthVars, aggVars, loaderVars, shimVars >>

\* Variant: the snarks are dropped with their witnesses.
without_witnesses_without_snarks(c) ==
    [built |-> TRUE, svk |-> c.svk, snarks |-> <<>>, instances |-> <<>>,
     as_proof |-> [known |-> FALSE, bytes |-> <<>>]]

\* Circuit::without_witnesses (lines 276-283)
without_witnesses(c) ==
    [built |-> TRUE, svk |-> c.svk,
     snarks |-> [k \in DOMAIN c.snarks |-> SnarkWithoutWitnesses(c.snarks[k])],
     instances |-> <<>>,
     as_proof |-> [known |-> FALSE, bytes |-> <<>>]]

\* Circuit::without_witnesses, as key generation calls it.
WithoutWitnesses ==
    /\ n_pc = "done"
    /\ s_pc = "idle"
    /\ circuit.as_proof.known
    /\ circuit' = without_witnesses(circuit)
    /\ UNCHANGED << snarks, rng, transcript_write, n_pc, n_i, n_accumulators, n_trace, n_err >>
    /\ UNCHANGED << configVars, synthVars, aggVars, loaderVars, shimVars >>

\* accumulator_indices(): (0, 0) .. (0, 4*LIMBS - 1)
accumulator_indices == [idx \in 1..(4 * LIMBS) |-> << 0, idx - 1 >>]

\* num_instance(): vec![4 * LIMBS]
num_instance == << 4 * LIMBS >>

\* instances(): vec![self.instances.clone()]
instances(c) == << c.instances >>

\* ------------------------------------------- AggregationConfig::configure
\* Mutant: one matching parameter is enough.
ConfigureAssertEither(limb_bits, num_limbs) == limb_bits = BITS \/ num_limbs = LIMBS

\* The assertion of lines 134-138.
ConfigureAssert(limb_bits, num_limbs) == limb_bits = BITS /\ num_limbs = LIMBS

NoConfig == [base_field_config |-> [limb_bits |-> 0, num_limbs |-> 0], instance |-> Unknown]

EmptyConstraintSystem == [fp_configs |-> <<>>, instance_columns |-> 0, equality |-> {}]

\* Lines 133-157, on params whose limb_bits and num_limbs are the inputs.
Configure ==
    /\ n_pc = "done"
    /\ cfg_pc = "none"
    /\ \E limb_bits \in {BITS, BITS + 1}, num_limbs \in {LIMBS - 1, LIMBS} :
          /\ params' = [limb_bits |-> limb_bits, num_limbs |-> num_limbs]
          /\ IF ConfigureAssert(limb_bits, num_limbs)
             THEN LET base == [limb_bits |-> BITS, num_limbs |-> LIMBS]
                      column == meta.instance_columns
                  IN  /\ meta' = [fp_configs |-> Append(meta.fp_configs, base),
                                  instance_columns |-> meta.instance_columns + 1,
                                  equality |-> meta.equality \cup {column}]
                      /\ config' = [base_field_config |-> base, instance |-> column]
                      /\ cfg_pc' = "configured"
             ELSE /\ cfg_pc' = "panicked"
                  /\ UNCHANGED << meta, config >>
    /\ UNCHANGED << nativeVars, synthVars, aggVars, loaderVars, shimVars >>

\* ------------------------------------------------------------- aggregate
\* assign_instances (lines 64-71) for snark number i: one assigned scalar per
\* instance, column by column.
assign_instances(sw, i) ==
    [c \in DOMAIN sw.instances |->
        [k \in DOMAIN sw.instances[c] |->
            [snark |-> i, column |-> c, pos |-> k, value |-> sw.instances[c][k]]]]

\* previous_instances.extend(instances.into_iter().flatten())
ExtendInstances(prev, assigned) == prev \o Concat(assigned)

\* The closure of lines 83-99 for the next snark; an Err is unwrapped.
AggSnark ==
    /\ s_pc = "aggregate"
    /\ c_i < Len(a_snarks)
    /\ LET sw == a_snarks[c_i + 1] IN
       \E outcome \in Outcomes :
          /\ c_trace' = c_trace \o VerifierSteps(sw, outcome)
          /\ IF outcome = "ok"
             THEN /\ previous_instances' =
                        ExtendInstances(previous_instances, assign_instances(sw, c_i + 1))
                  /\ c_accumulators' = AppendAccumulators(c_accumulators, SuccinctVerify(sw))
                  /\ c_i' = c_i + 1
                  /\ UNCHANGED << c_err, s_pc >>
             ELSE /\ s_pc' = Unwrap(outcome, s_pc)
                  /\ c_err' = outcome
                  /\ UNCHANGED << previous_instances, c_accumulators, c_i >>
    /\ UNCHANGED << a_caller, a_snarks, a_as_proof, c_returned, c_acc >>
    /\ UNCHANGED << first_pass, passes, lookup_loaded, assigned_instances, constraints >>
    /\ UNCHANGED << nativeVars, configVars, loaderVars, shimVars >>

\* Mutant: the accumulation scheme is run for a single accumulator too.
AggregateFoldsAny(n) == n > 0

\* accumulators.len() > 1 (line 102)
AggregateFolds(n) == n > 1

\* Mutant: unwrap_or_default in place of unwrap.
PopOrDefault(accs) ==
    IF accs = <<>>
    THEN [some |-> TRUE, value |-> UnknownAccumulator, rest |-> <<>>]
    ELSE [some |-> TRUE, value |-> accs[Len(accs)], rest |-> SubSeq(accs, 1, Len(accs) - 1)]

\* Vec::pop: the last element, if any, and the elements left.
Pop(accs) ==
    IF accs = <<>>
    THEN [some |-> FALSE, value |-> UnknownAccumulator, rest |-> <<>>]
    ELSE [some |-> TRUE, value |-> accs[Len(accs)], rest |-> SubSeq(accs, 1, Len(accs) - 1)]

\* KzgAs::verify on the accumulators and the proof read from as_proof.
AsVerify(accs, as_proof) ==
    IF as_proof.known /\ AllKnown(accs) THEN Accumulate(accs) ELSE UnknownAccumulator

\* The calls of lines 103-106 before `failed`.
AsSteps(as_proof, failed) ==
    << Event("as", "new_stream", 0, << as_proof.bytes >>),
       Event("as", "read_proof", 0, <<>>) >>
    \o (IF failed = "read_proof" THEN <<>> ELSE << Event("as", "verify", 0, <<>>) >>)

\* The limb cells of lines 343-361, in the order they are chained.
SynthCells(acc) ==
    LET cells(name, fe) ==
            [j \in 1..LIMBS |-> [coord |-> name, limb |-> j - 1, value |-> fe_to_limbs(fe)[j]]]
    IN  Concat(<< cells("lhs.x", CoordX(acc.lhs)), cells("lhs.y", CoordY(acc.lhs)),
                  cells("rhs.x", CoordX(acc.rhs)), cells("rhs.y", CoordY(acc.rhs)) >>)

\* Where aggregate returns to, and the cells its caller then holds: the region
\* closure goes on (lines 334-364) to collect the accumulator's limb cells.
ReturnTo(caller) == IF caller = "synthesize" THEN "assign_region" ELSE "returned"
CellsAfter(caller, acc, cells) == IF caller = "synthesize" THEN SynthCells(acc) ELSE cells

\* Lines 102-111 of aggregate: fold or pass through, and return.
AggAccumulate ==
    /\ s_pc = "aggregate"
    /\ c_i = Len(a_snarks)
    /\ \/ /\ AggregateFolds(Len(c_accumulators))
          /\ \E outcome \in {"ok", "read_proof", "verify"} :
                /\ c_trace' = c_trace \o AsSteps(a_as_proof, outcome)
                /\ IF outcome = "ok"
                   THEN LET acc == AsVerify(c_accumulators, a_as_proof) IN
                        /\ c_acc' = acc
                        /\ c_returned' = TRUE
                        /\ assigned_instances' = CellsAfter(a_caller, acc, assigned_instances)
                        /\ s_pc' = ReturnTo(a_caller)
                        /\ UNCHANGED c_err
                   ELSE /\ s_pc' = Unwrap(outcome, s_pc)
                        /\ c_err' = "as_" \o outcome
                        /\ UNCHANGED << c_acc, c_returned, assigned_instances >>
          /\ UNCHANGED c_accumulators
       \/ /\ ~AggregateFolds(Len(c_accumulators))
          /\ LET popped == Pop(c_accumulators) IN
             /\ c_accumulators' = popped.rest
             /\ IF popped.some
                THEN /\ c_acc' = popped.value
                     /\ c_returned' = TRUE
                     /\ assigned_instances' =
                           CellsAfter(a_caller, popped.value, assigned_instances)
                     /\ s_pc' = ReturnTo(a_caller)
                     /\ UNCHANGED c_err
                ELSE /\ s_pc' = "panicked"
                     /\ c_err' = "pop"
                     /\ UNCHANGED << c_acc, c_returned, assigned_instances >>
          /\ UNCHANGED c_trace
    /\ UNCHANGED << a_caller, a_snarks, a_as_proof, c_i, previous_instances >>
    /\ UNCHANGED << first_pass, passes, lookup_loaded, constraints >>
    /\ UNCHANGED << nativeVars, configVars, loaderVars, shimVars >>

\* ------------------------------------------------------------ synthesize
\* halo2_base::SKIP_FIRST_PASS
SKIP_FIRST_PASS == TRUE

\* Lines 301-305: load the lookup table (`?` returns its Err), set the flags.
SynthLoadLookupTable ==
    /\ circuit.built
    /\ cfg_pc = "configured"
    /\ s_pc = "idle"
    /\ \/ /\ lookup_loaded' = TRUE
          /\ first_pass' = SKIP_FIRST_PASS
          /\ assigned_instances' = <<>>
          /\ s_pc' = "assign_region"
       \/ /\ s_pc' = "error"
          /\ UNCHANGED << lookup_loaded, first_pass, assigned_instances >>
    /\ UNCHANGED << passes, constraints >>
    /\ UNCHANGED << nativeVars, configVars, aggVars, loaderVars, shimVars >>

\* Variant: the closure never returns early.
SkipsNoPass(flag) == FALSE

\* if first_pass { first_pass = false; return Ok(()); } (lines 310-313)
SkipsPass(flag) == flag

\* The layouter invokes the region closure (lines 309-365): the skipped first
\* pass returns at once, a later one starts aggregate on a fresh loader.
RegionClosure ==
    /\ s_pc = "assign_region"
    /\ passes < MaxPasses
    /\ passes' = passes + 1
    /\ IF SkipsPass(first_pass)
       THEN /\ first_pass' = FALSE
            /\ UNCHANGED << s_pc, aggVars >>
       ELSE /\ s_pc' = "aggregate"
            /\ a_caller' = "synthesize"
            /\ a_snarks' = circuit.snarks
            /\ a_as_proof' = circuit.as_proof
            /\ c_i' = 0
            /\ c_accumulators' = <<>>
            /\ previous_instances' = <<>>
            /\ c_trace' = <<>>
            /\ c_err' = "none"
            /\ c_returned' = FALSE
            /\ c_acc' = UnknownAccumulator
            /\ UNCHANGED first_pass
    /\ UNCHANGED << lookup_loaded, assigned_instances, constraints >>
    /\ UNCHANGED << nativeVars, configVars, loaderVars, shimVars >>

\* aggregate (lines 48-112) called by another circuit's synthesize instead of
\* through an AggregationCircuit: on any snark witnesses, with any as_proof.
AggregateDirect ==
    /\ n_pc = "run"
    /\ n_i = 0
    /\ s_pc = "idle"
    /\ n_pc' = "unused"
    /\ s_pc' = "aggregate"
    /\ a_caller' = "direct"
    /\ \E known \in BOOLEAN :
          /\ a_snarks' = [k \in DOMAIN snarks |->
                            IF known THEN SnarkWitnessOf(snarks[k])
                            ELSE SnarkWithoutWitnesses(SnarkWitnessOf(snarks[k]))]
          /\ a_as_proof' = IF known THEN [known |-> TRUE, bytes |-> << rng >>]
                           ELSE [known |-> FALSE, bytes |-> <<>>]
    /\ UNCHANGED << c_i, c_accumulators, previous_instances, c_trace, c_err, c_returned, c_acc >>
    /\ UNCHANGED << snarks, rng, transcript_write, n_i, n_accumulators, n_trace, n_err, circuit >>
    /\ UNCHANGED << first_pass, passes, lookup_loaded, assigned_instances, constraints >>
    /\ UNCHANGED << configVars, loaderVars, shimVars >>

\* Mutant: the instance rows are counted from 1.
ExposeInstancesFromOne(cells, column) ==
    [k \in DOMAIN cells |-> [cell |-> cells[k], column |-> column, row |-> k]]

\* constrain_instance(cell, config.instance, i) for each collected cell.
ExposeInstances(cells, column) ==
    [k \in DOMAIN cells |-> [cell |-> cells[k], column |-> column, row |-> k - 1]]

\* assign_region has returned Ok: lines 368-373.
SynthExpose ==
    /\ s_pc = "assign_region"
    /\ passes >= 1
    /\ constraints' = ExposeInstances(assigned_instances, config.instance)
    /\ s_pc' = "done"
    /\ UNCHANGED << first_pass, passes, lookup_loaded, assigned_instances >>
    /\ UNCHANGED << nativeVars, configVars, aggVars, loaderVars, shimVars >>

\* ------------------------------------------------------ the native loader
Ok == [ok |-> TRUE, error |-> "none", annotation |-> ""]
AssertionFailure(annotation) ==
    [ok |-> FALSE, error |-> "AssertionFailure", annotation |-> annotation]

\* PartialEq of a scalar, and of an affine point (both coordinates).
ScalarEq(a, b) == a = b
PointEq(a, b) == a.x = b.x /\ a.y = b.y

\* NativeLoader::assert_eq (native.rs, lines 79-86)
assert_eq(annotation, lhs, rhs) ==
    IF ScalarEq(lhs, rhs) THEN Ok ELSE AssertionFailure(annotation)

\* Mutant: only the abscissas are compared.
ec_point_assert_eq_abscissa(annotation, lhs, rhs) ==
    IF lhs.x = rhs.x THEN Ok ELSE AssertionFailure(annotation)

\* NativeLoader::ec_point_assert_eq (native.rs, lines 62-69)
ec_point_assert_eq(annotation, lhs, rhs) ==
    IF PointEq(lhs, rhs) THEN Ok ELSE AssertionFailure(annotation)

Annotations == {"", "lhs == rhs", "pairing check"}
Scalars == 0..(P - 1)
\* Affine points; for each abscissa the two points y and -y.
Points == { [x |-> x, y |-> y] : x \in 0..2, y \in {1, P - 1} }

NoResult == [ok |-> FALSE, error |-> "none", annotation |-> ""]

AssertEqCall ==
    /\ l_pc = "call"
    /\ l_args.op = "assert_eq"
    /\ l_result' = assert_eq(l_args.annotation, l_lhs, l_rhs)
    /\ l_pc' = "returned"
    /\ UNCHANGED << l_args, l_lhs, l_rhs, l_loader >>
    /\ UNCHANGED << nativeVars, configVars, synthVars, aggVars, shimVars >>

EcPointAssertEqCall ==
    /\ l_pc = "call"
    /\ l_args.op = "ec_point_assert_eq"
    /\ l_result' = ec_point_assert_eq(l_args.annotation, l_lhs, l_rhs)
    /\ l_pc' = "returned"
    /\ UNCHANGED << l_args, l_lhs, l_rhs, l_loader >>
    /\ UNCHANGED << nativeVars, configVars, synthVars, aggVars, shimVars >>

LoaderIdle ==
    /\ l_pc = "idle"
    /\ l_args = [op |-> "none", annotation |-> "", lhs |-> 0, rhs |-> 0]
    /\ l_lhs = 0
    /\ l_rhs = 0
    /\ l_loader = "NativeLoader"
    /\ l_result = NoResult

\* ------------------------------------- the circuit backends (shim.rs)
\* Order of the scalar field F the integer instructions work on.
Modulus == 7

Known(v) == v # Unknown

\* Value<F> arithmetic: the result is unknown as soon as an operand is.
FAdd(a, b) == IF Known(a) /\ Known(b) THEN (a + b) % Modulus ELSE Unknown
FMul(a, b) == IF Known(a) /\ Known(b) THEN (a * b) % Modulus ELSE Unknown
FInverse(a) == CHOOSE b \in 1..(Modulus - 1) : (a * b) % Modulus = 1

\* The group law of Z_P on witnessed points; 0 is the identity.
GAdd(g, h) == IF Known(g) /\ Known(h) THEN (g + h) % P ELSE Unknown
GMul(s, g) == IF Known(s) /\ Known(g) THEN (s * g) % P ELSE Unknown
RECURSIVE GSum(_)
GSum(points) == IF points = <<>> THEN 0 ELSE GAdd(Head(points), GSum(Tail(points)))
is_identity(g) == g = 0

\* One thing done on the Context: the call made and the values it is made on.
Row(op, data) == [op |-> op, data |-> data]

\* Result<_, Error>: Ok(value), Err(Error::Synthesis) raised by the shim, and
\* the Err a call into the backend returned.
ShimOk(v) == [ok |-> TRUE, error |-> "none", value |-> v]
ErrorSynthesis == [ok |-> FALSE, error |-> "Synthesis", value |-> Unknown]
BackendError == [ok |-> FALSE, error |-> "Backend", value |-> Unknown]
NoShimResult == [ok |-> FALSE, error |-> "none", value |-> Unknown]
\* Option::None of the native FieldOps::invert
NoneValue == [ok |-> FALSE, error |-> "None", value |-> Unknown]

\* What a call into the backend returned: Ok(value) or its Err.
Returned(ok, v) == IF ok THEN ShimOk(v) ELSE BackendError

\* Result::and
ResultAnd(first, second) == IF first.ok THEN second ELSE first

\* eq.then_some(()).ok_or(Error::Synthesis)
OkOrSynthesis(eq) == IF eq THEN ShimOk(0) ELSE ErrorSynthesis

\* a.value().zip(b.value()).map(|(lhs, rhs)| eq &= lhs == rhs), from eq = true
ValuesEq(a, b) == IF Known(a) /\ Known(b) THEN a = b ELSE TRUE

NoArgs ==
    [a |-> 0, b |-> 0, values |-> <<>>, constant |-> 0, terms |-> <<>>, pairs |-> <<>>]

NoChip == [aux_generator |-> 0, aux |-> FALSE]

\* What every instruction but the MSM leaves alone.
ShimFrame ==
    /\ UNCHANGED << h_backend, h_op, h_args, h_chip >>
    /\ UNCHANGED << nativeVars, configVars, synthVars, aggVars, loaderVars >>

Called(backend, op) == h_pc = "call" /\ h_backend = backend /\ h_op = op

\* ---- IntegerInstructions::assert_equal
\* halo2_lib (lines 262-269): the Result of region.constrain_equal.
halo2_lib_assert_equal(a, b, constrained) == constrained

\* halo2_wrong (lines 562-574): the Result of MainGate's assert_equal, and then
\* Err(Synthesis) when the two values are known and differ.
halo2_wrong_assert_equal(a, b, constrained) ==
    ResultAnd(constrained, OkOrSynthesis(ValuesEq(a, b)))

LibScalarAssertEqual ==
    /\ Called("halo2_lib", "assert_equal")
    /\ \E emitted \in BOOLEAN :
          /\ h_ctx' = Append(h_ctx, Row("constrain_equal", << h_args.a, h_args.b >>))
          /\ h_result' = halo2_lib_assert_equal(h_args.a, h_args.b, Returned(emitted, 0))
    /\ h_pc' = "returned"
    /\ ShimFrame

WrongScalarAssertEqual ==
    /\ Called("halo2_wrong", "assert_equal")
    /\ \E emitted \in BOOLEAN :
          /\ h_ctx' = Append(h_ctx, Row("assert_equal", << h_args.a, h_args.b >>))
          /\ h_result' = halo2_wrong_assert_equal(h_args.a, h_args.b, Returned(emitted, 0))
    /\ h_pc' = "returned"
    /\ ShimFrame

\* ---- EccInstructions::assert_equal
\* halo2_lib (lines 370-378): the chip's assert_equal returns nothing; Ok(()).
halo2_lib_ecc_assert_equal(a, b) == ShimOk(0)

\* Both coordinates' integers are zipped and compared (lines 678-683).
CoordinatesEq(a, b) == ValuesEq(a.x, b.x) /\ ValuesEq(a.y, b.y)

\* halo2_wrong (lines 672-686)
halo2_wrong_ecc_assert_equal(a, b, constrained) ==
    ResultAnd(constrained, OkOrSynthesis(CoordinatesEq(a, b)))

PointRow(op, a, b) == Row(op, << a.x, a.y, b.x, b.y >>)

LibPointAssertEqual ==
    /\ Called("halo2_lib", "ecc_assert_equal")
    /\ h_ctx' = Append(h_ctx, PointRow("assert_equal", h_args.a, h_args.b))
    /\ h_result' = halo2_lib_ecc_assert_equal(h_args.a, h_args.b)
    /\ h_pc' = "returned"
    /\ ShimFrame

WrongPointAssertEqual ==
    /\ Called("halo2_wrong", "ecc_assert_equal")
    /\ \E emitted \in BOOLEAN :
          /\ h_ctx' = Append(h_ctx, PointRow("assert_equal", h_args.a, h_args.b))
          /\ h_result' =
                halo2_wrong_ecc_assert_equal(h_args.a, h_args.b, Returned(emitted, 0))
    /\ h_pc' = "returned"
    /\ ShimFrame

\* ---- invert
\* The witness an unchecked division or inversion assigns: the inverse of a
\* known non-zero operand, and whatever the backend makes of zero.
InverseWitness(a, garbage) ==
    IF ~Known(a) THEN Unknown ELSE IF a = 0 THEN garbage ELSE FInverse(a)

\* halo2_lib (lines 246-260): is_zero, assert_is_const(is_zero, 0), div_unsafe.
halo2_lib_invert_rows(a) ==
    << Row("is_zero", << a >>),
       Row("assert_is_const", << 0 >>),
       Row("div_unsafe", << 1, a >>) >>

\* halo2_wrong (lines 554-560): MainGate's invert_unsafe and nothing else.
halo2_wrong_invert_rows(a) == << Row("invert_unsafe", << a >>) >>

LibInvert ==
    /\ Called("halo2_lib", "invert")
    /\ h_ctx' = h_ctx \o halo2_lib_invert_rows(h_args.a)
    /\ \E garbage \in {0, 1} : h_result' = ShimOk(InverseWitness(h_args.a, garbage))
    /\ h_pc' = "returned"
    /\ ShimFrame

WrongInvert ==
    /\ Called("halo2_wrong", "invert")
    /\ h_ctx' = h_ctx \o halo2_wrong_invert_rows(h_args.a)
    /\ \E ok \in BOOLEAN, garbage \in {0, 1} :
          h_result' = Returned(ok, InverseWitness(h_args.a, garbage))
    /\ h_pc' = "returned"
    /\ ShimFrame

\* FieldOps::invert of the native loader (native.rs, lines 33-37)
native_invert(a) == IF a = 0 THEN NoneValue ELSE ShimOk(FInverse(a))

NativeInvert ==
    /\ Called("native", "invert")
    /\ h_result' = native_invert(h_args.a)
    /\ h_pc' = "returned"
    /\ UNCHANGED h_ctx
    /\ ShimFrame

\* ---- EccInstructions::normalize
\* halo2_lib (lines 362-368): the Context is not used, the point is cloned.
LibNormalize ==
    /\ Called("halo2_lib", "normalize")
    /\ h_result' = ShimOk(h_args.a)
    /\ h_pc' = "returned"
    /\ UNCHANGED h_ctx
    /\ ShimFrame

\* halo2_wrong (lines 664-670): the chip's normalize, on the Context.
WrongNormalize ==
    /\ Called("halo2_wrong", "normalize")
    /\ h_ctx' = Append(h_ctx, Row("normalize", << h_args.a >>))
    /\ \E ok \in BOOLEAN : h_result' = Returned(ok, h_args.a)
    /\ h_pc' = "returned"
    /\ ShimFrame

\* ---- EccInstructions::sum_with_const
\* The constant as a summand: None when it is the identity (lines 321-326).
ConstantSummand(constant) == IF is_identity(constant) THEN <<>> ELSE << constant >>

AssignConstantRows(summand) ==
    [k \in DOMAIN summand |-> Row("assign_constant", << summand[k] >>)]

\* halo2_lib (lines 315-328): the constant is assigned unless it is the
\* identity, then the chip sums the constant and the values.
LibSumWithConst ==
    /\ Called("halo2_lib", "sum_with_const")
    /\ LET constant == ConstantSummand(h_args.constant)
           summands == constant \o h_args.values
       IN  /\ h_ctx' = h_ctx \o AssignConstantRows(constant) \o << Row("sum", summands) >>
           /\ h_result' = ShimOk(GSum(summands))
    /\ h_pc' = "returned"
    /\ ShimFrame

\* The add calls reduce makes on a chain of points, the first `upto` of them.
RECURSIVE AddRows(_, _, _)
AddRows(acc, rest, upto) ==
    IF rest = <<>> \/ upto = 0 THEN <<>>
    ELSE << Row("add", << acc, Head(rest) >>) >>
         \o AddRows(GAdd(acc, Head(rest)), Tail(rest), upto - 1)

\* halo2_wrong (lines 606-624): an empty list returns the assigned constant;
\* otherwise the constant, unless the identity, is assigned and the chain is
\* reduced with add.  `failing` is the call that returns Err (0: none): call 1
\* is the assignment of the constant when there is one, the adds follow.
WrongSumWithConst ==
    /\ Called("halo2_wrong", "sum_with_const")
    /\ IF h_args.values = <<>>
       THEN /\ h_ctx' = Append(h_ctx, Row("assign_constant", << h_args.constant >>))
            /\ \E ok \in BOOLEAN : h_result' = Returned(ok, h_args.constant)
       ELSE LET constant == ConstantSummand(h_args.constant)
                chain == constant \o h_args.values
                calls == Len(constant) + Len(chain) - 1
            IN  \E failing \in 0..calls :
                   LET assigned == failing = 0 \/ failing > Len(constant)
                       adds == IF ~assigned THEN 0
                               ELSE IF failing = 0 THEN Len(chain) - 1
                               ELSE failing - Len(constant)
                   IN  /\ h_ctx' = h_ctx \o AssignConstantRows(constant)
                                         \o AddRows(Head(chain), Tail(chain), adds)
                       /\ h_result' = Returned(failing = 0, GSum(chain))
    /\ h_pc' = "returned"
    /\ ShimFrame

\* ---- IntegerInstructions::sum_products_with_coeff_and_const
\* *scalar * lhs * rhs of a term (coeff, lhs, rhs)
Product(term) == FMul(FMul(term[1], term[2]), term[3])

\* Variant: the constant is left out of the running value.
FirstAccWithoutConstant(term, constant) == Product(term)

\* The value after the first term: scalar * lhs * rhs + constant (lines 469, 494-495).
FirstAcc(term, constant) == FAdd(Product(term), constant)

\* The fold of lines 496-519: each later term's row carries the running value
\* as its fifth term and scales the product into the next row.
RECURSIVE ChainRows(_, _)
ChainRows(rest, acc) ==
    IF rest = <<>> THEN <<>>
    ELSE LET term == Head(rest) IN
         << Row("CombineToNextScaleMul", << term[1], term[2], term[3], 0, acc >>) >>
         \o ChainRows(Tail(rest), FAdd(acc, Product(term)))

RECURSIVE ChainOutput(_, _)
ChainOutput(rest, acc) ==
    IF rest = <<>> THEN acc ELSE ChainOutput(Tail(rest), FAdd(acc, Product(Head(rest))))

\* halo2_wrong (lines 456-535): the value of the cell returned.
halo2_wrong_sum_products_output(terms, constant) ==
    IF terms = <<>> THEN constant
    ELSE ChainOutput(Tail(terms), FirstAcc(Head(terms), constant))

\* halo2_wrong (lines 456-535): the rows applied, by number of terms.
halo2_wrong_sum_products_rows(terms, constant) ==
    IF terms = <<>> THEN << Row("assign_constant", << constant >>) >>
    ELSE LET first == Head(terms)
             output == halo2_wrong_sum_products_output(terms, constant)
         IN  IF Len(terms) = 1
             THEN << Row("OneLinerDoubleMul",
                         << first[1], first[2], first[3], constant, output >>) >>
             ELSE << Row("CombineToNextScaleMul",
                         << first[1], first[2], first[3], constant >>) >>
                  \o ChainRows(Tail(terms), FirstAcc(first, constant))
                  \o << Row("OneLinerAdd", << 0, 0, 0, 0, output >>) >>

\* `failing` is the apply (or assign_constant) that returns Err (0: none); the
\* rows after it are not applied.
WrongSumProducts ==
    /\ Called("halo2_wrong", "sum_products_with_coeff_and_const")
    /\ LET rows == halo2_wrong_sum_products_rows(h_args.terms, h_args.constant) IN
       \E failing \in 0..Len(rows) :
          /\ h_ctx' = h_ctx \o (IF failing = 0 THEN rows ELSE SubSeq(rows, 1, failing))
          /\ h_result' = Returned(failing = 0,
                            halo2_wrong_sum_products_output(h_args.terms, h_args.constant))
    /\ h_pc' = "returned"
    /\ ShimFrame

\* The chip's sum_products_with_coeff_and_var on the terms and Constant(constant).
RECURSIVE SumProducts(_, _)
SumProducts(terms, constant) ==
    IF terms = <<>> THEN constant
    ELSE FAdd(Product(Head(terms)), SumProducts(Tail(terms), constant))

\* halo2_lib (lines 211-227): no term assigns the constant, any other number
\* goes to the chip; both are Ok.
LibSumProducts ==
    /\ Called("halo2_lib", "sum_products_with_coeff_and_const")
    /\ h_ctx' = Append(h_ctx,
                    IF Len(h_args.terms) = 0
                    THEN Row("assign_region_last", << h_args.constant >>)
                    ELSE Row("sum_products_with_coeff_and_var",
                             Concat(h_args.terms) \o << h_args.constant >>))
    /\ h_result' = ShimOk(SumProducts(h_args.terms, h_args.constant))
    /\ h_pc' = "returned"
    /\ ShimFrame

\* ---- EccInstructions::variable_base_msm of halo2_wrong (lines 641-662)
WINDOW_SIZE == 3

\* (scalar, base) -> (base, scalar), lines 647-650
SwapPairs(pairs) == [k \in DOMAIN pairs |-> << pairs[k][2], pairs[k][1] >>]

\* The sum of scalar * base over (base, scalar) pairs.
RECURSIVE MsmSum(_)
MsmSum(pairs) ==
    IF pairs = <<>> THEN 0
    ELSE GAdd(GMul(Head(pairs)[2], Head(pairs)[1]), MsmSum(Tail(pairs)))

\* mul_batch_1d_horizontal: the windows start from multiples of the auxiliary
\* generator, which the correction point takes off at the end.
mul_batch_1d_horizontal(pairs, window, aux_generator) ==
    LET offset == GMul(window * (Len(pairs) + 1), aux_generator)
    IN  GAdd(GAdd(offset, MsmSum(pairs)), (P - offset) % P)

MulRow(pairs) == Row("mul_batch_1d_horizontal", << WINDOW_SIZE >> \o Concat(pairs))
AuxRow(pairs) == Row("assign_aux", << WINDOW_SIZE, Len(pairs) >>)

\* mul_batch_1d_horizontal needs the table of (window, number of pairs), and
\* assign_aux needs an auxiliary generator; each may fail for another reason.
CanMul(ok) == ok => h_chip.aux
CanAssignAux(ok) == ok => h_chip.aux_generator # 0

\* Variant: the Err is dropped and control goes on.
TryIgnored(ok, next) == next

\* `?`: where control is after a call, on or back in the caller with the Err.
Try(ok, next) == IF ok THEN next ELSE "returned"

MsmFrame ==
    /\ UNCHANGED << h_backend, h_op, h_args >>
    /\ UNCHANGED << nativeVars, configVars, synthVars, aggVars, loaderVars >>

\* Line 651: the first attempt; Ok is returned as it is.
MsmFirstAttempt ==
    /\ Called("halo2_wrong", "variable_base_msm")
    /\ LET pairs == SwapPairs(h_args.pairs) IN
       /\ h_ctx' = Append(h_ctx, MulRow(pairs))
       /\ \E ok \in BOOLEAN :
             /\ CanMul(ok)
             /\ IF ok
                THEN /\ h_result' = ShimOk(mul_batch_1d_horizontal(
                                        pairs, WINDOW_SIZE, h_chip.aux_generator))
                     /\ h_pc' = "returned"
                ELSE /\ h_pc' = "assign_aux"
                     /\ UNCHANGED h_result
    /\ UNCHANGED h_chip
    /\ MsmFrame

\* Line 653: assign_aux after the failed attempt.
MsmAssignAux ==
    /\ h_pc = "assign_aux"
    /\ h_ctx' = Append(h_ctx, AuxRow(h_args.pairs))
    /\ \E ok \in BOOLEAN :
          /\ CanAssignAux(ok)
          /\ IF ok
             THEN /\ h_chip' = [h_chip EXCEPT !.aux = TRUE]
                  /\ h_pc' = "retry"
             ELSE /\ h_pc' = "assign_aux_generator"
                  /\ UNCHANGED h_chip
    /\ UNCHANGED h_result
    /\ MsmFrame

\* Lines 654-655: a generator drawn from OsRng is assigned; `?` returns an Err.
MsmAssignAuxGenerator ==
    /\ h_pc = "assign_aux_generator"
    /\ \E aux_generator \in 1..(P - 1), ok \in BOOLEAN :
          /\ h_ctx' = Append(h_ctx, Row("assign_aux_generator", << aux_generator >>))
          /\ IF ok
             THEN /\ h_chip' = [h_chip EXCEPT !.aux_generator = aux_generator]
                  /\ UNCHANGED h_result
             ELSE /\ h_result' = BackendError
                  /\ UNCHANGED h_chip
          /\ h_pc' = Try(ok, "assign_aux_again")
    /\ MsmFrame

\* Line 656: assign_aux once more; `?` returns an Err.
MsmAssignAuxAgain ==
    /\ h_pc = "assign_aux_again"
    /\ h_ctx' = Append(h_ctx, AuxRow(h_args.pairs))
    /\ \E ok \in BOOLEAN :
          /\ CanAssignAux(ok)
          /\ IF ok
             THEN /\ h_chip' = [h_chip EXCEPT !.aux = TRUE]
                  /\ UNCHANGED h_result
             ELSE /\ h_result' = BackendError
                  /\ UNCHANGED h_chip
          /\ h_pc' = Try(ok, "retry")
    /\ MsmFrame

\* Line 658: the second attempt, whose Result is the call's.
MsmSecondAttempt ==
    /\ h_pc = "retry"
    /\ LET pairs == SwapPairs(h_args.pairs) IN
       /\ h_ctx' = Append(h_ctx, MulRow(pairs))
       /\ \E ok \in BOOLEAN :
             /\ CanMul(ok)
             /\ h_result' = Returned(ok, mul_batch_1d_horizontal(
                                            pairs, WINDOW_SIZE, h_chip.aux_generator))
    /\ h_pc' = "returned"
    /\ UNCHANGED h_chip
    /\ MsmFrame

\* ---- the calls made on the backends
\* Most points summed, terms multiplied and pairs multiplied in one call.
MaxValues == 2
MaxTerms == 3
MaxPairs == 2

ShimScalars == {0, 1, 2, Unknown}
UnknownPoint == [x |-> Unknown, y |-> Unknown]
ShimPoints == Points \cup {UnknownPoint}
GroupElements == 0..(P - 1)
ListsOf(S, n) == UNION { [1..k -> S] : k \in 0..n }
\* (coeff, lhs, rhs): the coefficient is a constant, the operands are witnesses.
TermSet == { << 1, 2, 3 >>, << 2, 3, 3 >>, << 3, Unknown, 1 >> }
\* (scalar, base)
PairSet == { << 2, 1 >>, << 3, 4 >>, << Unknown, 2 >> }
\* The chip before the call: nothing assigned, a generator, or its table too.
Chips == { NoChip, [aux_generator |-> 2, aux |-> FALSE], [aux_generator |-> 2, aux |-> TRUE] }

Backends == {"halo2_lib", "halo2_wrong"}

ShimIdle ==
    /\ h_pc = "idle"
    /\ h_backend = "none"
    /\ h_op = "none"
    /\ h_args = NoArgs
    /\ h_ctx = <<>>
    /\ h_chip = NoChip
    /\ h_result = NoShimResult

\* variable_base_msm is called on a chip of the halo2_wrong backend.
MsmCalled ==
    /\ h_pc = "call"
    /\ h_ctx = <<>>
    /\ h_result = NoShimResult
    /\ h_backend = "halo2_wrong"
    /\ h_op = "variable_base_msm"
    /\ h_chip \in Chips
    /\ \E pairs \in ListsOf(PairSet, MaxPairs) : h_args = [NoArgs EXCEPT !.pairs = pairs]

\* Any other instruction is called, on either backend (invert on the native
\* field too).
InstructionCalled ==
    /\ h_pc = "call"
    /\ h_ctx = <<>>
    /\ h_result = NoShimResult
    /\ h_chip = NoChip
    /\ \/ /\ h_backend \in Backends
          /\ h_op = "assert_equal"
          /\ \E a, b \in ShimScalars : h_args = [NoArgs EXCEPT !.a = a, !.b = b]
       \/ /\ h_backend \in Backends
          /\ h_op = "ecc_assert_equal"
          /\ \E a, b \in ShimPoints : h_args = [NoArgs EXCEPT !.a = a, !.b = b]
       \/ /\ h_backend \in Backends
          /\ h_op = "invert"
          /\ \E a \in (0..(Modulus - 1)) \cup {Unknown} : h_args = [NoArgs EXCEPT !.a = a]
       \/ /\ h_backend = "native"
          /\ h_op = "invert"
          /\ \E a \in 0..(Modulus - 1) : h_args = [NoArgs EXCEPT !.a = a]
       \/ /\ h_backend \in Backends
          /\ h_op = "normalize"
          /\ \E a \in GroupElements : h_args = [NoArgs EXCEPT !.a = a]
       \/ /\ h_backend \in Backends
          /\ h_op = "sum_with_const"
          /\ \E values \in ListsOf(GroupElements, MaxValues), constant \in GroupElements :
                h_args = [NoArgs EXCEPT !.values = values, !.constant = constant]
       \/ /\ h_backend \in Backends
          /\ h_op = "sum_products_with_coeff_and_const"
          /\ \E terms \in ListsOf(TermSet, MaxTerms), constant \in {0, 4} :
                h_args = [NoArgs EXCEPT !.terms = terms, !.constant = constant]

\* ------------------------------------------------------ the specification
\* AggregationCircuit::new is called on a list of snarks.
NewCalled ==
    /\ snarks \in SnarkLists
    /\ rng \in {0, 1}
    /\ transcript_write \in {<<>>, << 7 >>}
    /\ n_pc = "run"
    /\ n_i = 0
    /\ n_accumulators = <<>>
    /\ n_trace = <<>>
    /\ n_err = "none"
    /\ circuit = NoCircuit
    /\ cfg_pc = "none"
    /\ params = [limb_bits |-> 0, num_limbs |-> 0]
    /\ meta = EmptyConstraintSystem
    /\ config = NoConfig
    /\ s_pc = "idle"
    /\ first_pass = FALSE
    /\ passes = 0
    /\ lookup_loaded = FALSE
    /\ assigned_instances = <<>>
    /\ constraints = <<>>
    /\ a_caller = "none"
    /\ a_snarks = <<>>
    /\ a_as_proof = [known |-> FALSE, bytes |-> <<>>]
    /\ c_i = 0
    /\ c_accumulators = <<>>
    /\ previous_instances = <<>>
    /\ c_trace = <<>>
    /\ c_err = "none"
    /\ c_returned = FALSE
    /\ c_acc = UnknownAccumulator

Init == LoaderIdle /\ ShimIdle /\ NewCalled

Next ==
    \/ NewSnark
    \/ NewCreateProof
    \/ WithoutWitnesses
    \/ Configure
    \/ SynthLoadLookupTable
    \/ RegionClosure
    \/ AggregateDirect
    \/ AggSnark
    \/ AggAccumulate
    \/ SynthExpose

Spec == Init /\ [][Next]_vars

\* The native loader's assertions, on every pair of scalars and of points.
AggregationIdle ==
    /\ snarks = <<>>
    /\ rng = 0
    /\ transcript_write = <<>>
    /\ n_pc = "unused"
    /\ n_i = 0
    /\ n_accumulators = <<>>
    /\ n_trace = <<>>
    /\ n_err = "none"
    /\ circuit = NoCircuit
    /\ cfg_pc = "none"
    /\ params = [limb_bits |-> 0, num_limbs |-> 0]
    /\ meta = EmptyConstraintSystem
    /\ config = NoConfig
    /\ s_pc = "unused"
    /\ first_pass = FALSE
    /\ passes = 0
    /\ lookup_loaded = FALSE
    /\ assigned_instances = <<>>
    /\ constraints = <<>>
    /\ a_caller = "none"
    /\ a_snarks = <<>>
    /\ a_as_proof = [known |-> FALSE, bytes |-> <<>>]
    /\ c_i = 0
    /\ c_accumulators = <<>>
    /\ previous_instances = <<>>
    /\ c_trace = <<>>
    /\ c_err = "none"
    /\ c_returned = FALSE
    /\ c_acc = UnknownAccumulator

InitLoader ==
    /\ AggregationIdle
    /\ ShimIdle
    /\ l_pc = "call"
    /\ l_loader = "NativeLoader"
    /\ l_result = NoResult
    /\ \E annotation \in Annotations :
          \/ \E a, b \in Scalars :
                l_args = [op |-> "assert_eq", annotation |-> annotation, lhs |-> a, rhs |-> b]
          \/ \E a, b \in Points :
                l_args = [op |-> "ec_point_assert_eq", annotation |-> annotation,
                          lhs |-> a, rhs |-> b]
    /\ l_lhs = l_args.lhs
    /\ l_rhs = l_args.rhs

NextLoader == AssertEqCall \/ EcPointAssertEqCall

SpecLoader == InitLoader /\ [][NextLoader]_vars

\* The instructions of the two circuit backends, one call at a time.
InitShim ==
    /\ AggregationIdle
    /\ LoaderIdle
    /\ (InstructionCalled \/ MsmCalled)

NextShim ==
    \/ LibScalarAssertEqual
    \/ WrongScalarAssertEqual
    \/ LibPointAssertEqual
    \/ WrongPointAssertEqual
    \/ LibInvert
    \/ WrongInvert
    \/ NativeInvert
    \/ LibNormalize
    \/ WrongNormalize
    \/ LibSumWithConst
    \/ WrongSumWithConst
    \/ LibSumProducts
    \/ WrongSumProducts
    \/ MsmFirstAttempt
    \/ MsmAssignAux
    \/ MsmAssignAuxGenerator
    \/ MsmAssignAuxAgain
    \/ MsmSecondAttempt

SpecShim == InitShim /\ [][NextShim]_vars

\* A call that was made goes on until it returns: nothing suspends it.
SpecShimLive == SpecShim /\ WF_vars(NextShim)

\* The native pre-pass, and a multiplication on the halo2_wrong backend with
\* the generator its retry draws.
InitDeterminism ==
    /\ LoaderIdle
    /\ NewCalled
    /\ MsmCalled
    /\ h_chip = NoChip
    /\ h_args.pairs = << << 2, 1 >>, << 3, 4 >> >>

NextDeterminism ==
    \/ NewSnark
    \/ NewCreateProof
    \/ MsmFirstAttempt
    \/ MsmAssignAux
    \/ MsmAssignAuxGenerator
    \/ MsmAssignAuxAgain
    \/ MsmSecondAttempt

SpecDeterminism == InitDeterminism /\ [][NextDeterminism]_vars

\* ================================================================ claims
\* What the properties below are stated with.

\* Every accumulator succinct verification yields for a list of snark
\* witnesses, snark by snark.
RECURSIVE AllAccumulators(_)
AllAccumulators(sws) ==
    IF sws = <<>> THEN <<>> ELSE SuccinctVerify(Head(sws)) \o AllAccumulators(Tail(sws))

\* The field element a run of limbs (least significant first) stands for.
RECURSIVE Recompose(_)
Recompose(limbs) ==
    IF limbs = <<>> THEN 0 ELSE Head(limbs) + Pow2(BITS) * Recompose(Tail(limbs))

\* The q-th group of LIMBS elements (q = 0..3) of a sequence.
Chunk(seq, q) == SubSeq(seq, q * LIMBS + 1, (q + 1) * LIMBS)

\* seq is the limb decomposition of acc, laid out lhs.x, lhs.y, rhs.x, rhs.y.
IsLimbsOf(seq, acc) ==
    /\ Len(seq) = 4 * LIMBS
    /\ \A k \in 1..Len(seq) : seq[k] \in 0..(Pow2(BITS) - 1)
    /\ Recompose(Chunk(seq, 0)) = CoordX(acc.lhs)
    /\ Recompose(Chunk(seq, 1)) = CoordY(acc.lhs)
    /\ Recompose(Chunk(seq, 2)) = CoordX(acc.rhs)
    /\ Recompose(Chunk(seq, 3)) = CoordY(acc.rhs)

HasAsCall(trace) == \E k \in DOMAIN trace : trace[k].of = "as"

\* The circuit as new built it (without_witnesses has not replaced it).
Witnessed == circuit.built /\ circuit.as_proof.known

\* aggregate was called, and on known witnesses.
AggCalled == a_caller # "none"
AggWitnessed == AggCalled /\ a_as_proof.known

\* C1: in aggregate, when succinct verification of all the snarks yields exactly
\* one accumulator in total, no call of the accumulation scheme is made (the
\* transcript is never given the as_proof stream, KzgAs::read_proof and
\* KzgAs::verify are not called) and the accumulator returned is that one.
C1_SingleAccumulatorPassesThrough ==
    (AggCalled /\ Len(AllAccumulators(a_snarks)) = 1)
        => /\ ~HasAsCall(c_trace)
           /\ c_returned => c_acc = AllAccumulators(a_snarks)[1]

C1_Witness ==
    /\ AggWitnessed
    /\ Len(AllAccumulators(a_snarks)) = 1
    /\ c_returned
    /\ c_acc = Accumulator(3, 4)

RECURSIVE PlonkCalls(_)
PlonkCalls(trace) ==
    IF trace = <<>> THEN <<>>
    ELSE (IF Head(trace).of = "plonk" THEN << Head(trace) >> ELSE <<>>)
         \o PlonkCalls(Tail(trace))

\* C3: when both phases have run over the same snarks, they made the same
\* verifier calls on the same data in the same order, and either both ran the
\* accumulation scheme or neither did.
C3_PhasesAgree ==
    (n_pc = "done" /\ Witnessed /\ a_caller = "synthesize" /\ c_returned)
        => /\ PlonkCalls(n_trace) = PlonkCalls(c_trace)
           /\ HasAsCall(n_trace) <=> HasAsCall(c_trace)

CoordNames == << "lhs.x", "lhs.y", "rhs.x", "rhs.y" >>

\* C4: the public output is one instance column of 4*LIMBS elements, the limbs of
\* lhs.x, lhs.y, rhs.x, rhs.y of the final accumulator in that order: new stores
\* them so, num_instance() is [4*LIMBS], accumulator_indices() is (0,0) ..
\* (0,4*LIMBS-1), and a synthesize that ran the aggregation constrains the limb
\* cells of the aggregated accumulator, in that order, to rows 0 .. 4*LIMBS-1 of
\* the instance column.
C4_InstanceLayout ==
    /\ num_instance = << 4 * LIMBS >>
    /\ Len(accumulator_indices) = 4 * LIMBS
    /\ \A k \in 1..(4 * LIMBS) : accumulator_indices[k] = << 0, k - 1 >>
    /\ (n_pc = "done" /\ Witnessed)
          => /\ Len(instances(circuit)) = 1
             /\ Len(instances(circuit)[1]) = num_instance[1]
             /\ IsLimbsOf(instances(circuit)[1], CreateProof(n_accumulators, rng).accumulator)
    /\ (s_pc = "done" /\ c_returned)
          => /\ Len(constraints) = 4 * LIMBS
             /\ \A k \in 1..Len(constraints) :
                   /\ constraints[k].row = k - 1
                   /\ constraints[k].column = config.instance
                   /\ constraints[k].cell.coord = CoordNames[((k - 1) \div LIMBS) + 1]
                   /\ constraints[k].cell.limb = (k - 1) % LIMBS
             /\ AggWitnessed =>
                   IsLimbsOf([k \in DOMAIN constraints |-> constraints[k].cell.value], c_acc)

C4_Witness ==
    /\ s_pc = "done"
    /\ c_returned
    /\ Witnessed
    /\ Len(a_snarks) = 2
    /\ Len(constraints) = 4 * LIMBS
    /\ constraints[4 * LIMBS].row = 4 * LIMBS - 1

\* C5: configure panics exactly when params.limb_bits # BITS or params.num_limbs
\* # LIMBS, and then nothing has been configured on the constraint system (no
\* field chip, no instance column, no equality); when both match, the field chip
\* is configured with BITS and LIMBS and one instance column with equality is added.
C5_ConfigureFailsFast ==
    (cfg_pc # "none")
        => /\ cfg_pc = "panicked" <=> (params.limb_bits # BITS \/ params.num_limbs # LIMBS)
           /\ cfg_pc = "panicked" => (meta = EmptyConstraintSystem /\ config = NoConfig)
           /\ cfg_pc = "configured"
                 => /\ meta.fp_configs = << [limb_bits |-> BITS, num_limbs |-> LIMBS] >>
                    /\ meta.instance_columns = 1
                    /\ meta.equality = {config.instance}

C5_Witness ==
    /\ cfg_pc = "panicked"
    /\ params.limb_bits = BITS
    /\ params.num_limbs # LIMBS
    /\ meta = EmptyConstraintSystem

InstanceBefore(a, b) ==
    \/ a.snark < b.snark
    \/ a.snark = b.snark /\ a.column < b.column
    \/ a.snark = b.snark /\ a.column = b.column /\ a.pos < b.pos

\* C6: in both phases the accumulators handed to the accumulation scheme are
\* the snarks' succinct-verification accumulators concatenated in snark input
\* order; previous_instances is every verified snark's assigned instances in
\* snark order, then column order, then position; and the accumulation scheme is
\* called (the as_proof stream installed) only after the proof of every snark
\* has been read and verified.
C6_FoldedInInputOrder ==
    /\ n_accumulators =
          AllAccumulators([k \in 1..n_i |-> SnarkWitnessOf(snarks[k])])
    /\ s_pc = "aggregate" => c_accumulators = AllAccumulators(SubSeq(a_snarks, 1, c_i))
    /\ \A p, q \in DOMAIN previous_instances :
          p < q => InstanceBefore(previous_instances[p], previous_instances[q])
    /\ \A p \in DOMAIN previous_instances :
          LET a == previous_instances[p] IN
          /\ a.snark \in 1..c_i
          /\ a.column \in DOMAIN a_snarks[a.snark].instances
          /\ a.pos \in DOMAIN a_snarks[a.snark].instances[a.column]
          /\ a.value = a_snarks[a.snark].instances[a.column][a.pos]
    /\ \A i \in 1..c_i : \A c \in DOMAIN a_snarks[i].instances :
          \A k \in DOMAIN a_snarks[i].instances[c] :
             \E p \in DOMAIN previous_instances :
                /\ previous_instances[p].snark = i
                /\ previous_instances[p].column = c
                /\ previous_instances[p].pos = k
    /\ \A k \in DOMAIN c_trace :
          c_trace[k].of = "as"
             => /\ Len(PlonkCalls(SubSeq(c_trace, 1, k))) = 3 * Len(a_snarks)
                /\ \A j \in k..Len(c_trace) : c_trace[j].of = "as"
    /\ \A k \in DOMAIN n_trace :
          n_trace[k].of = "as"
             => /\ Len(PlonkCalls(SubSeq(n_trace, 1, k))) = 3 * Len(snarks)
                /\ k = Len(n_trace)

C6_Witness ==
    /\ c_returned
    /\ Witnessed
    /\ a_caller = "synthesize"
    /\ Len(a_snarks) = 2
    /\ a_snarks[1].protocol.id = 3
    /\ a_snarks[2].protocol.id = 2
    /\ HasAsCall(c_trace)
    /\ Len(previous_instances) = 4
    /\ previous_instances[1].snark = 1
    /\ previous_instances[4] = [snark |-> 2, column |-> 2, pos |-> 1, value |-> 3]

\* C7 as stated: a failure in the native pre-pass is returned to the caller as
\* an error (new comes back with it instead of panicking).
C7_NativeFailureReturned == n_err # "none" => n_pc # "panicked"

\* C7, amended: in the native pre-pass a failure of read_proof, succinct_verify
\* or the accumulation step is unwrapped, so new panics at that call; the whole
\* aggregation is aborted and no partial result exists: no circuit, no
\* instances, no accumulation-proof bytes, and nothing is configured or
\* synthesized from it.
C7_NativeFailurePanics ==
    /\ n_err # "none"
          => /\ n_pc = "panicked"
             /\ n_trace[Len(n_trace)].op = n_err
             /\ circuit = NoCircuit
             /\ circuit.instances = <<>> /\ circuit.as_proof.bytes = <<>>
             /\ cfg_pc = "none" /\ s_pc = "idle"
    /\ n_pc = "done" => n_err = "none"
    /\ circuit.built => n_pc = "done"

C7_Witness ==
    /\ n_pc = "panicked"
    /\ n_err = "succinct_verify"
    /\ n_i = 1
    /\ Len(snarks) = 2
    /\ n_accumulators # <<>>
    /\ circuit = NoCircuit

ErrCalls == {"read_proof", "succinct_verify", "as_read_proof", "as_verify"}

\* C8: in circuit mode an Err from read_proof, succinct_verify or the
\* accumulation scheme's read_proof or verify does not abort aggregate.
C8_CircuitErrorDoesNotAbort == c_err \in ErrCalls => s_pc # "panicked"

AggEnded == c_returned \/ s_pc = "panicked"

\* C9 as stated: for every snark list, the one that yields zero accumulators
\* included, an aggregate in which no call fails returns a final accumulator.
C9_ZeroOrMoreFoldIntoOne == (AggEnded /\ c_err \notin ErrCalls) => c_returned

\* C9, amended: the accumulation step folds one or more accumulators into one.
\* aggregate returns only for a list that yields at least one accumulator, and the
\* accumulator it returns is the only one (one accumulator) or the combination of
\* all of them (several); on a list that yields none it panics at pop().unwrap().
C9_OneOrMoreFoldIntoOne ==
    LET all == AllAccumulators(a_snarks) IN
    /\ c_returned
          => /\ Len(all) >= 1
             /\ AggWitnessed => c_acc = IF Len(all) = 1 THEN all[1]
                                     ELSE FoldWith(all, Challenge(all))
    /\ (AggEnded /\ Len(all) = 0) => (s_pc = "panicked" /\ c_err = "pop" /\ ~c_returned)
    /\ c_err = "pop" => Len(all) = 0

C9_Witness ==
    /\ c_returned
    /\ AggWitnessed
    /\ Len(AllAccumulators(a_snarks)) = 3
    /\ c_acc = FoldWith(AllAccumulators(a_snarks), Challenge(AllAccumulators(a_snarks)))

\* C10: the native assert_eq and ec_point_assert_eq return Ok exactly when lhs
\* equals rhs (for points: both coordinates), and otherwise
\* Error::AssertionFailure carrying exactly the caller's annotation; the
\* operands and the loader are left as they were.
C10_NativeAssertEq ==
    (l_pc = "returned")
        => /\ l_result.ok <=> l_args.lhs = l_args.rhs
           /\ l_result.ok => l_result = Ok
           /\ ~l_result.ok => /\ l_result.error = "AssertionFailure"
                              /\ l_result.annotation = l_args.annotation
           /\ l_lhs = l_args.lhs
           /\ l_rhs = l_args.rhs
           /\ l_loader = "NativeLoader"

C10_Witness ==
    /\ l_pc = "returned"
    /\ l_args.op = "ec_point_assert_eq"
    /\ l_args.lhs.x = l_args.rhs.x
    /\ l_args.lhs.y # l_args.rhs.y
    /\ l_result = AssertionFailure("pairing check")

\* ------------------------------------------------ the circuit backends
ShimReturned(op) == h_pc = "returned" /\ h_op = op /\ h_backend \in Backends

\* Both witness values are known and differ.
Mismatch(a, b) == Known(a) /\ Known(b) /\ a # b

\* C11: on both circuit backends the scalar assert_equal emits the equality
\* constraint on its two operands; when both witness values are known and differ
\* it fails; when they are equal or not known it fails only with the error of
\* the call that emits the constraint.
C11_ScalarAssertEqualCatchesMismatch ==
    ShimReturned("assert_equal") =>
        /\ Len(h_ctx) = 1
        /\ h_ctx[1].op \in {"constrain_equal", "assert_equal"}
        /\ h_ctx[1].data = << h_args.a, h_args.b >>
        /\ Mismatch(h_args.a, h_args.b) => ~h_result.ok
        /\ (~Mismatch(h_args.a, h_args.b) /\ ~h_result.ok) => h_result.error = "Backend"

\* The witnessed coordinates of two points are known and differ in x or in y.
PointMismatch(a, b) == Mismatch(a.x, b.x) \/ Mismatch(a.y, b.y)

\* C12: on both circuit backends the point assert_equal emits the equality
\* constraint on its two operands, and returns an error whenever the witnessed
\* coordinates are known and differ in x or in y.
C12_PointAssertEqualCatchesMismatch ==
    ShimReturned("ecc_assert_equal") =>
        /\ Len(h_ctx) = 1
        /\ h_ctx[1] = PointRow("assert_equal", h_args.a, h_args.b)
        /\ PointMismatch(h_args.a, h_args.b) => ~h_result.ok

\* The rows constrain the operand not to be zero before a row produces the
\* inverse.
ConstrainsNonZeroFirst(rows) ==
    \E i, j \in DOMAIN rows :
        /\ i < j
        /\ rows[i].op = "assert_is_const"
        /\ rows[j].op \in {"div_unsafe", "invert_unsafe"}

\* C13: on both circuit backends invert constrains its operand to be non-zero
\* before it produces the inverse; the native invert returns None for zero and
\* Some(1/a) for any other a.
C13_InvertConstrainsNonZero ==
    /\ ShimReturned("invert") => ConstrainsNonZeroFirst(h_ctx)
    /\ (h_pc = "returned" /\ h_op = "invert" /\ h_backend = "native") =>
          IF h_args.a = 0 THEN h_result = NoneValue
          ELSE h_result.ok /\ (h_args.a * h_result.value) % Modulus = 1

\* The snark witnesses new verifies, in input order.
NewWitnesses == [k \in DOMAIN snarks |-> SnarkWitnessOf(snarks[k])]

MsmReturned == h_pc = "returned" /\ h_op = "variable_base_msm"

MsmOps == [k \in DOMAIN h_ctx |-> h_ctx[k].op]

IsPrefix(s, t) == Len(s) <= Len(t) /\ s = SubSeq(t, 1, Len(s))

\* The two ways to a second attempt: the first assign_aux succeeds, or it
\* fails and a generator is assigned before assign_aux is called once more.
ShortRetry == << "mul_batch_1d_horizontal", "assign_aux", "mul_batch_1d_horizontal" >>
FullRetry ==
    << "mul_batch_1d_horizontal", "assign_aux", "assign_aux_generator", "assign_aux",
       "mul_batch_1d_horizontal" >>

C15_Shape ==
    h_op = "variable_base_msm" =>
        /\ IsPrefix(MsmOps, ShortRetry) \/ IsPrefix(MsmOps, FullRetry)
        /\ \A k \in DOMAIN h_ctx :
              /\ h_ctx[k].op = "mul_batch_1d_horizontal"
                    => h_ctx[k] = MulRow(SwapPairs(h_args.pairs))
              /\ h_ctx[k].op = "assign_aux" => h_ctx[k] = AuxRow(h_args.pairs)
        /\ Len(MsmOps) > 3 => h_chip.aux_generator = h_ctx[3].data[1]
        /\ (MsmOps = ShortRetry \/ MsmOps = FullRetry) => h_chip.aux
        /\ h_pc \notin {"call", "returned"} => h_result = NoShimResult
        /\ h_pc = "returned" =>
              /\ \/ MsmOps = << "mul_batch_1d_horizontal" >> /\ h_result.ok
                 \/ MsmOps = ShortRetry
                 \/ MsmOps = FullRetry
                 \/ /\ MsmOps \in {SubSeq(FullRetry, 1, 3), SubSeq(FullRetry, 1, 4)}
                    /\ h_result = BackendError
              /\ h_result # NoShimResult

\* C15: the halo2_wrong variable_base_msm attempts the batch multiplication at
\* most twice, on the same pairs and window; a first success is returned with
\* no auxiliary setup; after a failure assign_aux is tried, and only when that
\* fails is a generator assigned, once, and assign_aux called once more; an
\* Err of either is returned without a second attempt; the second attempt's
\* Result is the call's; and every call returns.
C15_BoundedRetry ==
    /\ []C15_Shape
    /\ (h_op = "variable_base_msm") ~> MsmReturned

\* A call that went all the way: failed attempt, failed assign_aux, generator,
\* assign_aux, and a second attempt that succeeded.
C15_Witness == MsmReturned /\ MsmOps = FullRetry /\ h_result.ok

\* C16: on both circuit backends and for every list of points, the empty one
\* included, sum_with_const returns the sum of the points plus the constant; a
\* constant that is the identity is not assigned (and so not added); and the
\* call on an empty list and the identity has no call to fail in.
C16_SumWithConst ==
    ShimReturned("sum_with_const") =>
        /\ h_result.ok => h_result.value = GAdd(h_args.constant, GSum(h_args.values))
        /\ is_identity(h_args.constant) =>
              \A k \in DOMAIN h_ctx : h_ctx[k].op # "assign_constant"
        /\ (h_args.values = <<>> /\ is_identity(h_args.constant)) => h_result.ok

\* C17: sum_products_with_coeff_and_const returns, for no term, one term and
\* more, a cell whose value is the sum of coeff * a * b over the terms plus the
\* constant, counted once; with no term both backends assign the constant and
\* nothing else; and in the chained rows of halo2_wrong the running value after
\* each term is the partial sum up to it, the last row carrying the total.
C17_SumProducts ==
    ShimReturned("sum_products_with_coeff_and_const") =>
        LET terms == h_args.terms
            constant == h_args.constant
            n == Len(terms)
        IN  /\ (h_result.ok /\ (h_backend = "halo2_wrong" \/ n = 0)) =>
                  h_result.value = SumProducts(terms, constant)
            /\ n = 0 => /\ Len(h_ctx) = 1
                        /\ h_ctx[1].op \in {"assign_constant", "assign_region_last"}
                        /\ h_ctx[1].data = << constant >>
                        /\ h_result.ok => h_result.value = constant
            /\ (h_backend = "halo2_wrong" /\ n >= 1) =>
                  /\ h_result.ok => Len(h_ctx) = (IF n = 1 THEN 1 ELSE n + 1)
                  /\ h_ctx[1].data[4] = constant
                  /\ \A k \in DOMAIN h_ctx :
                        /\ (1 < k /\ k <= n) =>
                              /\ h_ctx[k].op = "CombineToNextScaleMul"
                              /\ SubSeq(h_ctx[k].data, 1, 3) = terms[k]
                              /\ h_ctx[k].data[4] = 0
                              /\ h_ctx[k].data[5] = SumProducts(SubSeq(terms, 1, k - 1), constant)
                        /\ k = n + 1 =>
                              /\ h_ctx[k].op = "OneLinerAdd"
                              /\ h_ctx[k].data[5] = SumProducts(terms, constant)

\* Three terms with known operands and a non-zero constant went through the
\* chained rows of halo2_wrong.
C17_Witness ==
    /\ ShimReturned("sum_products_with_coeff_and_const")
    /\ h_backend = "halo2_wrong"
    /\ h_result.ok
    /\ h_args.terms = << << 1, 2, 3 >>, << 2, 3, 3 >>, << 1, 2, 3 >> >>
    /\ h_args.constant = 4
    /\ h_result.value = 6
    /\ Len(h_ctx) = 4

\* C18: on each circuit backend normalize(ctx, point) works on the Context: a
\* call that has returned has done something on it.
C18_NormalizeUsesContext ==
    ShimReturned("normalize") => \E k \in DOMAIN h_ctx : h_ctx[k].op = "normalize"

\* ------------------------------------------------ the witness-free circuit
\* The circuit is the one without_witnesses returned.
WitnessFree == circuit.built /\ ~circuit.as_proof.known

\* C19: the circuit without_witnesses returns has the succinct verifying key
\* and the protocols of the snarks of the original, as many and in the same
\* order, an unknown accumulation proof and no stored instance; so its
\* instances() column has length 0 where num_instance() says 4 * LIMBS, and
\* aggregate takes on it the branch (fold or pass through) it takes on the
\* original.
C19_WithoutWitnessesFrame ==
    /\ WitnessFree =>
          /\ circuit.svk = "g"
          /\ Len(circuit.snarks) = Len(snarks)
          /\ \A k \in DOMAIN snarks :
                /\ circuit.snarks[k].protocol = snarks[k].protocol
                /\ ~circuit.snarks[k].known
          /\ circuit.as_proof = [known |-> FALSE, bytes |-> <<>>]
          /\ instances(circuit) = << <<>> >>
          /\ Len(instances(circuit)[1]) = 0
          /\ num_instance[1] = 4 * LIMBS
          /\ Len(AllAccumulators(circuit.snarks)) = Len(AllAccumulators(NewWitnesses))
    /\ (a_caller = "synthesize" /\ c_returned) =>
          (HasAsCall(c_trace) <=> AggregateFolds(Len(AllAccumulators(NewWitnesses))))

\* The witness-free circuit of two snarks was synthesized, and aggregate folded.
C19_Witness ==
    /\ WitnessFree
    /\ Len(snarks) = 2
    /\ a_caller = "synthesize"
    /\ c_returned
    /\ HasAsCall(c_trace)

\* ----------------------------------------------------------- synthesize
\* synthesize of the circuit new built has got past the lookup table.
Synthesizing == circuit.built /\ s_pc \in {"assign_region", "aggregate", "panicked", "done"}

C20_Passes ==
    /\ Synthesizing => lookup_loaded
    /\ (SKIP_FIRST_PASS /\ Synthesizing /\ passes = 1) =>
          /\ a_caller = "none"
          /\ assigned_instances = <<>>
          /\ ~first_pass
    /\ (SKIP_FIRST_PASS /\ Synthesizing /\ passes > 1) => a_caller = "synthesize"
    /\ constraints # <<>> => s_pc = "done"
    /\ s_pc = "done" =>
          /\ Len(constraints) = Len(assigned_instances)
          /\ \A k \in DOMAIN constraints :
                constraints[k] =
                   [cell |-> assigned_instances[k], column |-> config.instance, row |-> k - 1]
          /\ passes > 1 => assigned_instances = SynthCells(c_acc)
          /\ Len(constraints) = (IF passes = 1 THEN 0 ELSE 4 * LIMBS)

\* An invocation of the region closure after the first starts aggregate afresh.
C20_LaterPass ==
    (circuit.built /\ s_pc = "assign_region" /\ passes >= 1 /\ passes' = passes + 1)
        => (s_pc' = "aggregate" /\ c_i' = 0 /\ c_trace' = <<>> /\ ~c_returned')

\* C20: with the skip flag set, the first invocation of the region closure
\* runs no aggregation and assigns nothing and every later one runs aggregate
\* from the start; instance constraints are emitted only once assign_region has
\* returned Ok, one per cell of the last aggregation, at rows 0, 1, ...: 4 *
\* LIMBS of them when the closure ran twice, none when only the skipped pass
\* ran; and the lookup table is loaded before the region is assigned.
C20_SkippedFirstPass == []C20_Passes /\ [][C20_LaterPass]_vars

\* Both passes ran and the limb cells were exposed.
C20_Witness ==
    /\ s_pc = "done"
    /\ passes = 2
    /\ circuit.as_proof.known
    /\ Len(constraints) = 4 * LIMBS

====
